---- MODULE Spec2Model ----
(***************************************************************************)
(* Model of aiida_pseudo.groups.family.pseudo.PseudoPotentialFamily: the   *)
(* directory parser, family construction from a folder, the membership     *)
(* manager (add_nodes), the lazily populated element cache and the lookup  *)
(* (get_pseudo), together with the pseudo potential record they act on.    *)
(*                                                                         *)
(* One live Python instance is modelled per family label; LoadFamily       *)
(* replaces it by a fresh instance loaded from the store.                  *)
(***************************************************************************)
EXTENDS Integers, Sequences, FiniteSets, TLC

VARIABLES records, famState, members, cache, pc, cur, last

vars == <<records, famState, members, cache, pc, cur, last>>

(***************************************************************************)
(* Bounds.                                                                 *)
(***************************************************************************)
\* Largest number of record objects alive at once.
MaxRecords == 2
\* Largest number of entries in one directory level.
MaxEntries == 2
\* Longest list handed to add_nodes.
MaxBatch == 2

(***************************************************************************)
(* Characters, filenames and the filename pattern of line 94.              *)
(***************************************************************************)
Letters == {"H", "e", "p", "u", "s"}
Digits == {"1"}

IsLetter(ch) == ch \in Letters

\* \w of Python's re: letters, digits and the underscore.
IsWord(ch) == ch \in Letters \cup Digits \cup {"_"}

\* None, for an element.
NoElem == << >>

H == <<"H">>
He == <<"H", "e">>
Li == <<"L", "i">>

\* Filenames, as sequences of characters: H.u, H.p, He.u, H1.u and s.
FnHu == <<"H", ".", "u">>
FnHp == <<"H", ".", "p">>
FnHeu == <<"H", "e", ".", "u">>
FnH1u == <<"H", "1", ".", "u">>
FnSub == <<"s">>

FileNames == {FnHu, FnHp, FnHeu, FnH1u}

\* re.search(r'^([A-Za-z]{1,2})\.\w+', filename): group 1, or NoElem when
\* there is no match. The quantifier {1,2} is greedy and backtracks to 1.
MatchElement(fn) ==
    IF /\ Len(fn) >= 4
       /\ IsLetter(fn[1]) /\ IsLetter(fn[2])
       /\ fn[3] = "." /\ IsWord(fn[4])
    THEN SubSeq(fn, 1, 2)
    ELSE IF /\ Len(fn) >= 3
            /\ IsLetter(fn[1])
            /\ fn[2] = "." /\ IsWord(fn[3])
         THEN SubSeq(fn, 1, 1)
         ELSE NoElem

(***************************************************************************)
(* File contents and the record type.                                      *)
(***************************************************************************)
\* cH declares the element H, cX declares no element, cBad does not parse.
Contents == {"cH", "cX", "cBad"}

\* The element the record constructor reads from the content, if any.
ContentElement(c) == IF c = "cH" THEN H ELSE NoElem

\* The checksum attribute: a hash of the content alone.
Md5(c) == <<"md5", c>>

\* The accepted type of the family and a subclass of it.
PseudoType == "PseudoPotentialData"
SubType == "SubPseudoData"
Types == {PseudoType, SubType}

\* cls._pseudo_type(handle, filename=filename): an unstored record, or a
\* ParsingError.
NewPseudo(type, c) ==
    IF c = "cBad"
    THEN [err |-> "ParsingError",
          node |-> [type |-> type, content |-> c, md5 |-> Md5(c),
                    element |-> NoElem, stored |-> FALSE]]
    ELSE [err |-> "ok",
          node |-> [type |-> type, content |-> c, md5 |-> Md5(c),
                    element |-> ContentElement(c), stored |-> FALSE]]

(***************************************************************************)
(* Directories.  A path is either not a directory or a listing; the entry  *)
(* of a listing is a file with a content or a subdirectory.  inner is the  *)
(* listing of the subdirectory when it is the sole entry of top.           *)
(***************************************************************************)
FileEntries == [name : FileNames, isfile : {TRUE}, content : Contents]
DirEntries == [name : {FnSub}, isfile : {FALSE}, content : {"-"}]
Entries == FileEntries \cup DirEntries

\* os.listdir: the entries in an arbitrary order, with distinct names.
Listings ==
    UNION {{l \in [1..n -> Entries] :
              \A i, j \in 1..n : i # j => l[i].name # l[j].name} :
           n \in 0..MaxEntries}

IsWrapper(top) == Len(top) = 1 /\ ~top[1].isfile

NotADirectory == [isdir |-> FALSE, top |-> << >>, inner |-> << >>]

Paths ==
    {NotADirectory}
    \cup {[isdir |-> TRUE, top |-> t, inner |-> << >>] :
            t \in {l \in Listings : ~IsWrapper(l)}}
    \cup {[isdir |-> TRUE, top |-> t, inner |-> i] :
            t \in {l \in Listings : IsWrapper(l)}, i \in Listings}

(***************************************************************************)
(* parse_pseudos_from_directory.                                           *)
(***************************************************************************)
ParseFailure(err, msg) == [err |-> err, msg |-> msg, pseudos |-> << >>]

\* Lines 78-79: descend once into a sole subdirectory.
ResolvedListing(path) ==
    IF IsWrapper(path.top) THEN path.inner ELSE path.top

\* Lines 93-101: the element of a constructed record, by the filename when
\* the constructor left it undefined.
ResolveElement(node, filename) ==
    IF node.element = NoElem
    THEN [node EXCEPT !.element = MatchElement(filename)]
    ELSE node

\* Lines 81-102: the loop over the listing, from entry i on.
RECURSIVE ParseLoop(_, _, _)
ParseLoop(listing, i, pseudos) ==
    IF i > Len(listing)
    THEN [err |-> "ok", msg |-> "", pseudos |-> pseudos]
    ELSE IF ~listing[i].isfile
    THEN ParseFailure("ValueError", "not a file")
    ELSE LET made == NewPseudo(PseudoType, listing[i].content)
             node == ResolveElement(made.node, listing[i].name)
         IN IF made.err # "ok"
            THEN ParseFailure("ParsingError", "failed to parse")
            ELSE IF node.element = NoElem
            THEN ParseFailure("ParsingError", "no element")
            ELSE ParseLoop(listing, i + 1, Append(pseudos, node))

ElementsOf(pseudos) == {pseudos[i].element : i \in 1..Len(pseudos)}

\* The parser, had the check of line 109 been left out.
parse_without_duplicate_check(path) ==
    IF ~path.isdir
    THEN ParseFailure("ValueError", "not a directory")
    ELSE LET res == ParseLoop(ResolvedListing(path), 1, << >>)
         IN IF res.err # "ok"
            THEN res
            ELSE IF res.pseudos = << >>
            THEN ParseFailure("ValueError", "no pseudos")
            ELSE res

\* Lines 69-112.
parse_pseudos_from_directory(path) ==
    IF ~path.isdir
    THEN ParseFailure("ValueError", "not a directory")
    ELSE LET res == ParseLoop(ResolvedListing(path), 1, << >>)
         IN IF res.err # "ok"
            THEN res
            ELSE IF res.pseudos = << >>
            THEN ParseFailure("ValueError", "no pseudos")
            ELSE IF Len(res.pseudos) # Cardinality(ElementsOf(res.pseudos))
            THEN ParseFailure("ValueError", "duplicate elements")
            ELSE res


\* One directory for each outcome of the parser: what create_from_folder
\* and the callers of the parser are given.
ParseOutcomes == {parse_pseudos_from_directory(p) : p \in Paths}

FolderPaths ==
    {CHOOSE p \in Paths : parse_pseudos_from_directory(p) = o :
       o \in ParseOutcomes}

\* The folders a caller parses to get records to add to a family.
ParsableFolders ==
    {p \in FolderPaths : parse_pseudos_from_directory(p).err = "ok"}

(***************************************************************************)
(* The state: the record objects (index = identity), the family of each    *)
(* label, its persisted membership and the _pseudos cache of its instance. *)
(***************************************************************************)
Labels == {"A"}

\* Elements asked for in lookups.
LookupElements == {H, He, Li}

Ids == 1..Len(records)

EmptyMap == [e \in {} |-> 0]

\* _pseudos = None (line 28).
NoCache == [loaded |-> FALSE, map |-> EmptyMap]

NoCur == [label |-> "", dedup |-> FALSE, pseudos |-> << >>, elems |-> {},
          md5s |-> << >>, preN |-> 0]

\* The last call made and its outcome: the operation, the family, the
\* error raised ("ok" when none, "pending" while create_from_folder runs),
\* the path create_from_folder gave to the parser and what it worked on.  Calls of the record and family
\* constructors, store() and the loading of a family are recorded as "call".
NoLast == [op |-> "call", err |-> "ok", msg |-> "", fam |-> "",
           path |-> NotADirectory, info |-> NoCur]

Called(op, fam, err, msg) ==
    [NoLast EXCEPT !.op = op, !.fam = fam, !.err = err, !.msg = msg]

Init ==
    /\ records = << >>
    /\ famState = [l \in Labels |-> "none"]
    /\ members = [l \in Labels |-> {}]
    /\ cache = [l \in Labels |-> NoCache]
    /\ pc = "idle"
    /\ cur = NoCur
    /\ last = NoLast

(***************************************************************************)
(* The record: constructor, set_file and store.                            *)
(***************************************************************************)
\* pseudo = PseudoType(handle, filename=...), kept by the caller.
NewNode(type, c) ==
    /\ pc = "idle"
    /\ Len(records) < MaxRecords
    /\ LET made == NewPseudo(type, c)
       IN IF made.err = "ok"
          THEN records' = Append(records, made.node)
          ELSE records' = records
    /\ last' = NoLast
    /\ UNCHANGED <<famState, members, cache, pc, cur>>

\* The record after set_file(c): contents, checksum and element of the new
\* file.
FileSet(node, c) ==
    [node EXCEPT !.content = c, !.md5 = Md5(c), !.element = ContentElement(c)]

\* pseudo.set_file(handle).
SetFile(r, c) ==
    /\ pc = "idle"
    /\ r \in Ids
    /\ c # "cBad"
    /\ IF records[r].stored
       THEN /\ records' = records
            /\ last' = Called("set_file", "", "ModificationNotAllowed", "")
       ELSE /\ records' = [records EXCEPT ![r] = FileSet(@, c)]
            /\ last' = Called("set_file", "", "ok", "")
    /\ UNCHANGED <<famState, members, cache, pc, cur>>

\* Stored, had store() reset the element.
StoredWithoutElement(node) == [node EXCEPT !.stored = TRUE, !.element = NoElem]

\* The record after store().
Stored(node) == [node EXCEPT !.stored = TRUE]

\* pseudo.store().
StoreNode(r) ==
    /\ pc = "idle"
    /\ r \in Ids
    /\ records' = [records EXCEPT ![r] = Stored(@)]
    /\ last' = NoLast
    /\ UNCHANGED <<famState, members, cache, pc, cur>>

\* cls.parse_pseudos_from_directory(path), the records kept by the caller.
ParseDirectory(path) ==
    /\ pc = "idle"
    /\ LET res == parse_pseudos_from_directory(path)
       IN /\ Len(records) + Len(res.pseudos) <= MaxRecords
          /\ records' = records \o res.pseudos
          /\ last' = Called("parse", "", res.err, res.msg)
    /\ UNCHANGED <<famState, members, cache, pc, cur>>

(***************************************************************************)
(* The family: construction, storing, loading, the cache.                  *)
(***************************************************************************)
\* family = cls(label=label): an unstored instance, _pseudos = None.
NewFamily(l) ==
    /\ pc = "idle"
    /\ famState[l] = "none"
    /\ famState' = [famState EXCEPT ![l] = "unstored"]
    /\ cache' = [cache EXCEPT ![l] = NoCache]
    /\ last' = NoLast
    /\ UNCHANGED <<records, members, pc, cur>>

\* family.store().
StoreFamily(l) ==
    /\ pc = "idle"
    /\ famState[l] = "unstored"
    /\ famState' = [famState EXCEPT ![l] = "stored"]
    /\ last' = NoLast
    /\ UNCHANGED <<records, members, cache, pc, cur>>

\* cls.objects.get(label=label): a fresh instance of a stored family, which
\* replaces the instance held so far; _pseudos = None.
LoadFamily(l) ==
    /\ pc = "idle"
    /\ famState[l] = "stored"
    /\ cache' = [cache EXCEPT ![l] = NoCache]
    /\ last' = NoLast
    /\ UNCHANGED <<records, famState, members, pc, cur>>

MemberElements(l) == {records[r].element : r \in members[l]}

\* Line 192: {pseudo.element: pseudo for pseudo in self.nodes}.  The order
\* of self.nodes is not defined, so of two members with one element either
\* may be the one that stays.
Populations(l) ==
    {m \in [MemberElements(l) -> members[l]] :
       \A e \in MemberElements(l) : records[m[e]].element = e}

\* The dictionaries line 192 can build when the property is read: the
\* listing is read only while _pseudos is None (line 191).
Listed(l) == IF cache[l].loaded THEN {EmptyMap} ELSE Populations(l)

\* Lines 185-194: the pseudos property; pop is the listing's dictionary.
pseudos(l, pop) ==
    IF cache[l].loaded THEN cache[l] ELSE [loaded |-> TRUE, map |-> pop]

\* dict.update.
Update(m, new) ==
    [e \in DOMAIN m \cup DOMAIN new |->
       IF e \in DOMAIN new THEN new[e] ELSE m[e]]

Last(S) == CHOOSE i \in S : \A j \in S : j <= i

\* Lines 173-179: the dictionary the loop builds from the nodes; a later
\* node replaces an earlier one of the same element.
BatchPseudos(nodes) ==
    [e \in {records[nodes[i]].element : i \in 1..Len(nodes)} |->
       nodes[Last({i \in 1..Len(nodes) : records[nodes[i]].element = e})]]

\* Line 177: the check of one node against self.elements.
AlreadyPresent(node, elements) == node.element \in elements

\* Line 183: Group.add_nodes of the backend, which accepts stored nodes only.
GroupAddNodes(l, nodes) ==
    IF \E i \in 1..Len(nodes) : ~records[nodes[i]].stored
    THEN [err |-> "ValueError", msg |-> "unstored", members |-> members[l]]
    ELSE [err |-> "ok", msg |-> "",
          members |-> members[l] \cup {nodes[i] : i \in 1..Len(nodes)}]

\* Lines 164-183: add_nodes; the outcome, the cache and the membership.
add_nodes(l, nodes, pop) ==
    IF famState[l] # "stored"
    THEN [err |-> "ModificationNotAllowed", msg |-> "unstored group",
          cache |-> cache[l], members |-> members[l]]
    ELSE IF \E i \in 1..Len(nodes) : records[nodes[i]].type # PseudoType
    THEN [err |-> "TypeError", msg |-> "type",
          cache |-> cache[l], members |-> members[l]]
    ELSE LET c1 == pseudos(l, pop)
         IN IF \E i \in 1..Len(nodes) :
                  AlreadyPresent(records[nodes[i]], DOMAIN c1.map)
            THEN [err |-> "ValueError", msg |-> "already present",
                  cache |-> c1, members |-> members[l]]
            ELSE LET c2 == [c1 EXCEPT !.map = Update(@, BatchPseudos(nodes))]
                     res == GroupAddNodes(l, nodes)
                 IN [err |-> res.err, msg |-> res.msg,
                     cache |-> c2, members |-> res.members]

\* Lists of at most MaxBatch records; a single node is the list of it
\* (lines 167-168).
Batches == UNION {[1..n -> Ids] : n \in 0..MaxBatch}

\* family.add_nodes(nodes).
AddNodes(l, nodes) ==
    /\ pc = "idle"
    /\ famState[l] # "none"
    /\ \E pop \in Listed(l) :
         LET res == add_nodes(l, nodes, pop)
         IN /\ cache' = [cache EXCEPT ![l] = res.cache]
            /\ members' = [members EXCEPT ![l] = res.members]
            /\ last' = Called("add_nodes", l, res.err, res.msg)
    /\ UNCHANGED <<records, famState, pc, cur>>

\* family.pseudos / family.elements.
Pseudos(l) ==
    /\ pc = "idle"
    /\ famState[l] = "stored"
    /\ \E pop \in Listed(l) :
         cache' = [cache EXCEPT ![l] = pseudos(l, pop)]
    /\ last' = NoLast
    /\ UNCHANGED <<records, famState, members, pc, cur>>

\* Lines 214-216: the members of the family with the element.
QueryElement(l, element) ==
    {r \in members[l] : records[r].stored /\ records[r].element = element}

\* Lines 211-229: get_pseudo on the loaded cache c1.
get_pseudo(l, element, c1) ==
    IF element \in DOMAIN c1.map
    THEN [err |-> "ok", msg |-> "", ret |-> c1.map[element], cache |-> c1]
    ELSE LET found == QueryElement(l, element)
         IN IF Cardinality(found) > 1
            THEN [err |-> "RuntimeError", msg |-> "multiple", ret |-> 0,
                  cache |-> c1]
            ELSE IF found = {}
            THEN [err |-> "ValueError", msg |-> "not found", ret |-> 0,
                  cache |-> c1]
            ELSE LET r == CHOOSE x \in found : TRUE
                 IN [err |-> "ok", msg |-> "", ret |-> r,
                     cache |-> [c1 EXCEPT !.map =
                                  Update(@, [e \in {element} |-> r])]]

\* family.get_pseudo(element).
GetPseudo(l, element) ==
    /\ pc = "idle"
    /\ famState[l] = "stored"
    /\ \E pop \in Listed(l) :
         LET res == get_pseudo(l, element, pseudos(l, pop))
         IN /\ cache' = [cache EXCEPT ![l] = res.cache]
            /\ last' = Called("get_pseudo", l, res.err, res.msg)
    /\ UNCHANGED <<records, famState, members, pc, cur>>

(***************************************************************************)
(* create_from_folder, in the order of its statements: the label check,    *)
(* the parser and the deduplication (lines 127-144), family.store() (line  *)
(* 148), the store() of each pseudo and add_nodes (line 149).              *)
(***************************************************************************)
\* Lines 139-141: the stored records of exactly the accepted type with the
\* checksum.
ExistingPseudos(md5) ==
    {r \in Ids : /\ records[r].stored
                 /\ records[r].type = PseudoType
                 /\ records[r].md5 = md5}

\* Substitutes, had the deduplicate flag been ignored.
SubstitutesAlways(parsed, deduplicate) ==
    {sub \in [1..Len(parsed) -> 0..Len(records)] :
       \A i \in 1..Len(parsed) :
         IF ExistingPseudos(parsed[i].md5) # {}
         THEN sub[i] \in ExistingPseudos(parsed[i].md5)
         ELSE sub[i] = 0}

\* Lines 138-143: for each parsed pseudo the existing record that replaces
\* it (query.first(): any of the matches), or 0 when it is kept.
Substitutes(parsed, deduplicate) ==
    {sub \in [1..Len(parsed) -> 0..Len(records)] :
       \A i \in 1..Len(parsed) :
         IF deduplicate /\ ExistingPseudos(parsed[i].md5) # {}
         THEN sub[i] \in ExistingPseudos(parsed[i].md5)
         ELSE sub[i] = 0}

\* Lines 135-144: family_pseudos, as identities; the parsed pseudos that
\* are kept become new record objects.
RECURSIVE FamilyPseudos(_, _, _, _, _)
FamilyPseudos(parsed, sub, i, recs, ids) ==
    IF i > Len(parsed)
    THEN [records |-> recs, ids |-> ids]
    ELSE IF sub[i] # 0
    THEN FamilyPseudos(parsed, sub, i + 1, recs, Append(ids, sub[i]))
    ELSE FamilyPseudos(parsed, sub, i + 1, Append(recs, parsed[i]),
                       Append(ids, Len(recs) + 1))

\* CreateFails, had family.store() been called before the validation.
CreateFailsFamilyStored(path, l, err, msg) ==
    /\ last' = [Called("create_from_folder", l, err, msg)
                  EXCEPT !.path = path]
    /\ famState' = [famState EXCEPT ![l] = "stored"]
    /\ UNCHANGED <<records, members, cache, pc, cur>>

CreateFails(path, l, err, msg) ==
    /\ last' = [Called("create_from_folder", l, err, msg)
                  EXCEPT !.path = path]
    /\ UNCHANGED <<records, famState, members, cache, pc, cur>>

\* Lines 125-144.
CreateBegin(path, l, deduplicate) ==
    /\ pc = "idle"
    /\ famState[l] # "unstored"
    /\ IF famState[l] = "stored"
       THEN CreateFails(NotADirectory, l, "ValueError", "already exists")
       ELSE LET res == parse_pseudos_from_directory(path)
            IN IF res.err # "ok"
               THEN CreateFails(path, l, res.err, res.msg)
               ELSE \E sub \in Substitutes(res.pseudos, deduplicate) :
                      LET fp == FamilyPseudos(res.pseudos, sub, 1, records,
                                              << >>)
                      IN /\ Len(fp.records) <= MaxRecords
                         /\ records' = fp.records
                         /\ cur' = [label |-> l, dedup |-> deduplicate,
                                    pseudos |-> fp.ids,
                                    elems |-> ElementsOf(res.pseudos),
                                    md5s |-> [i \in 1..Len(res.pseudos) |->
                                                res.pseudos[i].md5],
                                    preN |-> Len(records)]
                         /\ pc' = "store_family"
                         /\ last' = [Called("create_from_folder", l,
                                            "pending", "")
                                       EXCEPT !.path = path]
                         /\ UNCHANGED <<famState, members, cache>>

\* Line 148: family.store().
CreateStoreFamily ==
    /\ pc = "store_family"
    /\ famState' = [famState EXCEPT ![cur.label] = "stored"]
    /\ members' = [members EXCEPT ![cur.label] = {}]
    /\ cache' = [cache EXCEPT ![cur.label] = NoCache]
    /\ pc' = "store_nodes"
    /\ UNCHANGED <<records, cur, last>>

\* Line 149: [pseudo.store() for pseudo in family_pseudos].
CreateStoreNodes ==
    /\ pc = "store_nodes"
    /\ records' = [r \in Ids |->
                     IF \E i \in 1..Len(cur.pseudos) : cur.pseudos[i] = r
                     THEN Stored(records[r])
                     ELSE records[r]]
    /\ pc' = "add_nodes"
    /\ UNCHANGED <<famState, members, cache, cur, last>>

\* Lines 149-151: family.add_nodes(...) and the return.
CreateAddNodes ==
    /\ pc = "add_nodes"
    /\ \E pop \in Listed(cur.label) :
         LET res == add_nodes(cur.label, cur.pseudos, pop)
         IN /\ cache' = [cache EXCEPT ![cur.label] = res.cache]
            /\ members' = [members EXCEPT ![cur.label] = res.members]
            /\ last' = [Called("create_from_folder", cur.label, res.err,
                               res.msg)
                          EXCEPT !.info = cur]
    /\ pc' = "idle"
    /\ cur' = NoCur
    /\ UNCHANGED <<records, famState>>

\* The constructor calls made by callers.
NewNodeInputs ==
    {<<PseudoType, "cH">>, <<PseudoType, "cX">>, <<PseudoType, "cBad">>,
     <<SubType, "cX">>}

(***************************************************************************)
(* The specifications.                                                     *)
(***************************************************************************)
Next ==
    \/ \E n \in NewNodeInputs : NewNode(n[1], n[2])
    \/ \E r \in Ids : StoreNode(r)
    \/ \E p \in ParsableFolders : ParseDirectory(p)
    \/ \E l \in Labels : NewFamily(l)
    \/ \E l \in Labels : StoreFamily(l)
    \/ \E l \in Labels : LoadFamily(l)
    \/ \E l \in Labels, b \in Batches : AddNodes(l, b)
    \/ \E l \in Labels : Pseudos(l)
    \/ \E l \in Labels, e \in LookupElements : GetPseudo(l, e)
    \/ \E p \in FolderPaths, l \in Labels, d \in BOOLEAN :
         CreateBegin(p, l, d)
    \/ CreateStoreFamily
    \/ CreateStoreNodes
    \/ CreateAddNodes

Spec == Init /\ [][Next]_vars

\* The record alone: its constructor, set_file and store.
NextRecord ==
    \/ \E n \in NewNodeInputs : NewNode(n[1], n[2])
    \/ \E r \in Ids, c \in Contents : SetFile(r, c)
    \/ \E r \in Ids : StoreNode(r)

SpecRecord == Init /\ [][NextRecord]_vars

\* The parser alone, on every directory of the bounds.
InitParse ==
    /\ records = << >>
    /\ famState = [l \in Labels |-> "none"]
    /\ members = [l \in Labels |-> {}]
    /\ cache = [l \in Labels |-> NoCache]
    /\ pc = "idle"
    /\ cur = NoCur
    /\ \E p \in Paths : last = [Called("input", "", "ok", "") EXCEPT !.path = p]

NextParse ==
    /\ last.op = "input"
    /\ ParseDirectory(last.path)

SpecParse == InitParse /\ [][NextParse]_vars

(***************************************************************************)
(* Properties of the membership.                                           *)
(***************************************************************************)
\* C1: the persisted membership of a family never holds two distinct
\* records with the same element.
C1_OneRecordPerElement ==
    \A l \in Labels :
      \A r1, r2 \in members[l] :
        r1 # r2 => records[r1].element # records[r2].element

AllAccepted(nodes) ==
    \A i \in 1..Len(nodes) : records[nodes[i]].type = PseudoType

ElementOfMember(l, nodes) ==
    \E i \in 1..Len(nodes), r \in members[l] :
      records[nodes[i]].element = records[r].element

SameElementInBatch(nodes) ==
    \E i, j \in 1..Len(nodes) :
      /\ nodes[i] # nodes[j]
      /\ records[nodes[i]].element = records[nodes[j]].element

\* C2: add_nodes on a stored family with nodes of the accepted type raises
\* ValueError when the element of a node is the element of a member, and
\* when two nodes of the list have the same element.
C2_DuplicateElementFails ==
    [][\A l \in Labels, b \in Batches :
         (/\ AddNodes(l, b)
          /\ famState[l] = "stored"
          /\ AllAccepted(b)
          /\ ElementOfMember(l, b) \/ SameElementInBatch(b))
         => last'.err = "ValueError"]_vars

\* The cache of l is what it was, or has only been read from the listing.
CacheAsBefore(l) ==
    \/ cache'[l] = cache[l]
    \/ /\ ~cache[l].loaded
       /\ cache'[l].loaded
       /\ cache'[l].map \in Populations(l)

\* C3: a failing add_nodes leaves the cache and the persisted membership of
\* the family as they were before the call.
C3_AddNodesAllOrNothing ==
    [][\A l \in Labels, b \in Batches :
         (AddNodes(l, b) /\ last'.err # "ok")
         => (members' = members /\ CacheAsBefore(l))]_vars

\* C10: a populated cache maps an element only to a persisted member with
\* that element, and every persisted member is the entry of its element.
C10_CacheConsistent ==
    \A l \in Labels :
      cache[l].loaded =>
        /\ \A e \in DOMAIN cache[l].map :
             /\ cache[l].map[e] \in members[l]
             /\ records[cache[l].map[e]].element = e
        /\ \A r \in members[l] :
             /\ records[r].element \in DOMAIN cache[l].map
             /\ cache[l].map[records[r].element] = r

\* C7: get_pseudo raises RuntimeError whenever more than one member of the
\* family has the element asked for.
C7_DuplicatesDetected ==
    [][\A l \in Labels, e \in LookupElements :
         (GetPseudo(l, e) /\ Cardinality(QueryElement(l, e)) > 1)
         => last'.err = "RuntimeError"]_vars

(***************************************************************************)
(* Properties of create_from_folder.                                       *)
(***************************************************************************)
CreateSucceeded == last.op = "create_from_folder" /\ last.err = "ok"

\* C4: after create_from_folder succeeds, get_pseudo returns a record with
\* element e for every element e of the directory and raises ValueError for
\* every other element.
C4_FamilyCoversDirectory ==
    CreateSucceeded =>
      \A e \in LookupElements :
        LET got == get_pseudo(last.fam, e, cache[last.fam])
        IN IF e \in last.info.elems
           THEN got.err = "ok" /\ records[got.ret].element = e
           ELSE got.err = "ValueError"

\* The records the call began with and those it made.
Fresh(r) == r > cur.preN

StoreAsBefore ==
    /\ famState' = famState
    /\ members' = members
    /\ Len(records') = Len(records)
    /\ \A r \in Ids : records'[r].stored = records[r].stored

\* C5: a create_from_folder that fails has changed nothing in the store: a
\* used label gives ValueError, a failure of the parser propagates, and no
\* failure comes after the validation; the family is stored only after the
\* label check and the parser have succeeded, before any record is stored
\* or attached.
C5_CreateWritesAfterValidation ==
    [][/\ (pc = "idle" /\ last'.op = "create_from_folder") =>
              LET l == last'.fam
                  res == parse_pseudos_from_directory(last'.path)
              IN /\ famState[l] = "stored" =>
                      /\ last'.err = "ValueError"
                      /\ last'.msg = "already exists"
                 /\ (famState[l] # "stored" /\ res.err # "ok") =>
                      /\ last'.err = res.err
                      /\ last'.msg = res.msg
                 /\ last'.err # "pending" => StoreAsBefore
                 /\ last'.err = "pending" =>
                      /\ famState' = famState
                      /\ members' = members
                      /\ \A r \in 1..Len(records') :
                           r > Len(records) => ~records'[r].stored
                      /\ \A r \in Ids : records'[r] = records[r]
       /\ pc # "idle" =>
            /\ last'.err \in {"pending", "ok"}
            /\ famState'[cur.label] # famState[cur.label] =>
                 /\ pc = "store_family"
                 /\ members'[cur.label] = {}
                 /\ \A r \in Ids : Fresh(r) => ~records'[r].stored
            /\ (\E r \in Ids : records'[r].stored # records[r].stored) =>
                 famState[cur.label] = "stored"
            /\ members' # members =>
                 /\ famState[cur.label] = "stored"
                 /\ \A r \in members'[cur.label] : records[r].stored]_vars

\* A used label and a failing parser have both been met, with a family and
\* records in the store.
C5_Witness ==
    /\ last.op = "create_from_folder"
    /\ last.err = "ValueError"
    /\ last.msg = "already exists"
    /\ members[last.fam] # {}

\* C6: with deduplicate, the member for a parsed pseudo whose checksum is
\* that of a stored record of exactly the accepted type is such a record,
\* one that existed before the call, and the call stores no record with
\* that checksum; every other parsed pseudo, and every parsed pseudo without
\* deduplicate, is stored as a new record and is the member.
C6_Deduplication ==
    CreateSucceeded =>
      LET info == last.info
          old(m) == {r \in 1..info.preN : /\ records[r].stored
                                          /\ records[r].type = PseudoType
                                          /\ records[r].md5 = m}
          new(m) == {r \in Ids : /\ r > info.preN
                                 /\ records[r].md5 = m}
      IN \A i \in 1..Len(info.md5s) :
           LET m == info.md5s[i]
               member == info.pseudos[i]
           IN /\ member \in members[last.fam]
              /\ IF info.dedup /\ old(m) # {}
                 THEN member \in old(m) /\ new(m) = {}
                 ELSE /\ member \in new(m)
                      /\ records[member].stored
                      /\ records[member].type = PseudoType

\* A call with deduplicate that reused a stored record for one file and
\* stored a new record for another.
C6_Witness ==
    /\ CreateSucceeded
    /\ last.info.dedup
    /\ \E i, j \in 1..Len(last.info.pseudos) :
         /\ last.info.pseudos[i] <= last.info.preN
         /\ last.info.pseudos[j] > last.info.preN

(***************************************************************************)
(* Properties of the parser.                                               *)
(***************************************************************************)
\* The element a file resolves to: that of its content, else that of its
\* name, else none.
Resolves(entry) ==
    IF ContentElement(entry.content) # NoElem
    THEN ContentElement(entry.content)
    ELSE MatchElement(entry.name)

\* Every entry of the listing is a file that parses and resolves.
AllResolve(listing) ==
    \A i \in 1..Len(listing) :
      /\ listing[i].isfile
      /\ listing[i].content # "cBad"
      /\ Resolves(listing[i]) # NoElem

C9_MutableUntilStored ==
    [][\A r \in Ids :
         /\ records[r].stored => records'[r] = records[r]
         /\ StoreNode(r) =>
              /\ records'[r].stored
              /\ records'[r].element = records[r].element
              /\ records'[r].content = records[r].content
         /\ \A c \in Contents :
              SetFile(r, c) =>
                IF records[r].stored
                THEN last'.err = "ModificationNotAllowed"
                ELSE /\ last'.err = "ok"
                     /\ records'[r].content = c
                     /\ records'[r].element = ContentElement(c)
                     /\ ~records'[r].stored]_vars

\* set_file has been refused on a record that was given a new file before
\* it was stored.
C9_Witness ==
    /\ last.op = "set_file"
    /\ last.err = "ModificationNotAllowed"
    /\ \E r \in Ids : records[r].stored /\ records[r].type = SubType
                      /\ records[r].content = "cH"

====
